---- MODULE Spec2Model ----
(***************************************************************************)
(* mdbook-graphviz: the preprocessor (src/src/preprocessor.rs) and the     *)
(* command line renderer (src/src/renderer.rs).                            *)
(*                                                                         *)
(* Strings are sequences of characters; a character is a one-character     *)
(* TLA+ string, or "U+xxxx" for a character outside ASCII.                 *)
(***************************************************************************)
EXTENDS Integers, Sequences, FiniteSets, TLC

VARIABLES
    \* ---- Graphviz::process_leaf_chapter (one chapter) ----
    chapter,                 \* the Chapter being processed: name, path, content
    input,                   \* the events the Parser has yielded so far
    graphviz_block_builder,  \* Option<GraphvizBlockBuilder>
    image_index,             \* the block counter
    event_futures,           \* Vec<BoxFuture<Result<Vec<Event>>>>, one per input event
    renderer_calls,          \* the calls made to GraphvizRenderer::render_graphviz
    cmark_calls,             \* the event sequences handed to cmark
    pc,                      \* where process_leaf_chapter stands
    result,                  \* what process_leaf_chapter returned
    \* ---- CommandLineGraphviz::render_graphviz (one call) ----
    render_args,             \* the call's arguments: code, output_path
    rpc,                     \* where render_graphviz stands
    backoff,                 \* the loop variable of spawn_backoff
    rlog,                    \* what the call did so far: spawns, sleeps, writes, awaits
    child,                   \* Option<Child>: the subprocess and its stdin
    render_result,           \* what render_graphviz returned
    \* ---- Graphviz::run (a book) ----
    book,                    \* the BookItem at each place of the original book
    run_pc,                  \* where run stands
    nstate,                  \* per item: where its process_section future stands
    nfutures,                \* per chapter: the event futures of its scan
    nresult,                 \* per item: what its process_section future returned
    nrank,                   \* per item: its rank among the completed items of its list
    run_calls,               \* per chapter: the calls made to the renderer, in order
    run_cmark,               \* per chapter: the calls made to cmark
    run_result,              \* what run returned
    \* ---- normalize_id (one string) ----
    norm_input,              \* the string given to normalize_id
    norm_output,             \* Option: what normalize_id returned for it
    norm_again               \* Option: what normalize_id returned for its own output

leafVars == <<chapter, input, graphviz_block_builder, image_index, event_futures,
              renderer_calls, cmark_calls, pc, result>>

renderVars == <<render_args, rpc, backoff, rlog, child, render_result>>

runVars == <<book, run_pc, nstate, nfutures, nresult, nrank, run_calls, run_cmark,
             run_result>>

normVars == <<norm_input, norm_output, norm_again>>

vars == <<leafVars, renderVars, runVars, normVars>>

\* Option<T>: None is the empty sequence, Some(v) the sequence of v alone.
None == <<>>

Some(v) == <<v>>

\* Result<T>
Ok(v) == [ok |-> TRUE, value |-> v]

Err(e) == [ok |-> FALSE, err |-> e]

----------------------------------------------------------------------------
(* Characters and strings *)

AsciiLowerSeq == <<"a","b","c","d","e","f","g","h","i","j","k","l","m",
                   "n","o","p","q","r","s","t","u","v","w","x","y","z">>

AsciiUpperSeq == <<"A","B","C","D","E","F","G","H","I","J","K","L","M",
                   "N","O","P","Q","R","S","T","U","V","W","X","Y","Z">>

AsciiDigitSeq == <<"0","1","2","3","4","5","6","7","8","9">>

Range(s) == {s[i] : i \in DOMAIN s}

\* Alphabetic or numeric characters outside ASCII: U+00C9 is an upper case
\* letter (E acute), U+00E9 its lower case form.
NonAsciiAlphanumeric == {"U+00C9", "U+00E9"}

\* Characters with the White_Space property (U+00A0 is the no-break space).
WhiteSpace == {" ", "\t", "\n", "U+00A0"}

is_alphanumeric(ch) ==
    ch \in Range(AsciiLowerSeq) \cup Range(AsciiUpperSeq) \cup Range(AsciiDigitSeq)
           \cup NonAsciiAlphanumeric

is_whitespace(ch) == ch \in WhiteSpace

\* The conversion that changes no character.
to_ascii_lowercase_identity(ch) == ch

\* char::to_ascii_lowercase: only A..Z change.
to_ascii_lowercase(ch) ==
    IF ch \in Range(AsciiUpperSeq)
    THEN AsciiLowerSeq[CHOOSE i \in DOMAIN AsciiUpperSeq : AsciiUpperSeq[i] = ch]
    ELSE ch

\* str::trim: the string without its leading and trailing white space.
RECURSIVE trim_start(_)
trim_start(s) ==
    IF s # <<>> /\ is_whitespace(Head(s)) THEN trim_start(Tail(s)) ELSE s

RECURSIVE trim_end(_)
trim_end(s) ==
    IF s # <<>> /\ is_whitespace(s[Len(s)])
    THEN trim_end(SubSeq(s, 1, Len(s) - 1))
    ELSE s

trim(s) == trim_end(trim_start(s))

\* The Display form of a usize, as format!("{}", index) writes it.
RECURSIVE fmt_usize(_)
fmt_usize(n) ==
    IF n < 10 THEN <<AsciiDigitSeq[n + 1]>>
    ELSE fmt_usize(n \div 10) \o <<AsciiDigitSeq[(n % 10) + 1]>>

\* str::find(pat).is_some(): pat occurs somewhere in the string.
find_anywhere(s, pat) ==
    \E k \in 0..(Len(s) - Len(pat)) : SubSeq(s, k + 1, k + Len(pat)) = pat

\* str::find(pat) == Some(0): the string starts with pat.
find_at_0(s, pat) == Len(s) >= Len(pat) /\ SubSeq(s, 1, Len(pat)) = pat

INFO_STRING_PREFIX == <<"d","o","t"," ","p","r","o","c","e","s","s">>

----------------------------------------------------------------------------
(* normalize_id *)

\* The filter that maps white space and "-" to "_" and drops "_" itself.
RECURSIVE normalize_id_drops_underscore(_)
normalize_id_drops_underscore(content) ==
    IF content = <<>> THEN <<>>
    ELSE LET ch == Head(content)
             out == IF is_alphanumeric(ch) THEN <<to_ascii_lowercase(ch)>>
                    ELSE IF is_whitespace(ch) \/ ch = "-" THEN <<"_">>
                    ELSE <<>>
         IN  out \o normalize_id_drops_underscore(Tail(content))

\* normalize_id: chars().filter_map(..).collect::<String>()
RECURSIVE normalize_id(_)
normalize_id(content) ==
    IF content = <<>> THEN <<>>
    ELSE LET ch == Head(content)
             out == IF is_alphanumeric(ch) THEN <<to_ascii_lowercase(ch)>>
                    ELSE IF is_whitespace(ch) \/ ch = "_" \/ ch = "-" THEN <<"_">>
                    ELSE <<>>
         IN  out \o normalize_id(Tail(content))

----------------------------------------------------------------------------
(* GraphvizBlockBuilder and GraphvizBlock *)

\* The builder that takes whatever follows the prefix as the graph name.
GraphvizBlockBuilder_new_any_suffix(info_string, chapter_name, path) ==
    [chapter_name |-> trim(chapter_name),
     graph_name   |-> IF Len(info_string) > Len(INFO_STRING_PREFIX)
                      THEN trim(SubSeq(info_string, Len(INFO_STRING_PREFIX) + 1,
                                       Len(info_string)))
                      ELSE <<>>,
     code         |-> <<>>,
     path         |-> path]

\* The builder that drops the trim of the chapter name.
GraphvizBlockBuilder_new_untrimmed(info_string, chapter_name, path) ==
    [chapter_name |-> chapter_name,
     graph_name   |-> IF Len(info_string) > Len(INFO_STRING_PREFIX)
                         /\ info_string[Len(INFO_STRING_PREFIX) + 1] = " "
                      THEN trim(SubSeq(info_string, Len(INFO_STRING_PREFIX) + 2,
                                       Len(info_string)))
                      ELSE <<>>,
     code         |-> <<>>,
     path         |-> path]

GraphvizBlockBuilder_new(info_string, chapter_name, path) ==
    LET graph_name ==
            \* chars().nth(INFO_STRING_PREFIX.len()) is the character after the prefix
            IF Len(info_string) > Len(INFO_STRING_PREFIX)
               /\ info_string[Len(INFO_STRING_PREFIX) + 1] = " "
            THEN trim(SubSeq(info_string, Len(INFO_STRING_PREFIX) + 2, Len(info_string)))
            ELSE <<>>
    IN  [chapter_name |-> trim(chapter_name),
         graph_name   |-> graph_name,
         code         |-> <<>>,
         path         |-> path]

\* The assignment that replaces the accumulated code.
append_code_overwrite(builder, code) == [builder EXCEPT !.code = code]

append_code(builder, code) == [builder EXCEPT !.code = @ \o code]

GENERATED == <<".","g","e","n","e","r","a","t","e","d">>

SVG == <<".","s","v","g">>

build(builder, index) ==
    LET cleaned_code == trim(builder.code)
        image_name ==
            IF builder.graph_name # <<>>
            THEN normalize_id(builder.chapter_name) \o <<"_">>
                 \o normalize_id(builder.graph_name) \o <<"_">>
                 \o fmt_usize(index) \o GENERATED
            ELSE normalize_id(builder.chapter_name) \o <<"_">>
                 \o fmt_usize(index) \o GENERATED
    IN  [graph_name   |-> builder.graph_name,
         image_name   |-> image_name,
         code         |-> cleaned_code,
         chapter_path |-> builder.path]

file_name(block) == block.image_name \o SVG

\* PathBuf::join: a path is the sequence of its components; an absolute
\* argument replaces the path.
PathJoin(path, name) ==
    IF name # <<>> /\ Head(name) = "/" THEN <<name>> ELSE Append(path, name)

----------------------------------------------------------------------------
(* pulldown_cmark events *)

CodeBlock(info_string) == [kind |-> "CodeBlock", info |-> info_string]

Paragraph == [kind |-> "Paragraph"]

Image(dest, title) ==
    [kind |-> "Image", link_type |-> "Inline", dest |-> dest, title |-> title]

EvStart(tag) == [type |-> "Start", tag |-> tag]

EvEnd(tag) == [type |-> "End", tag |-> tag]

EvText(text) == [type |-> "Text", text |-> text]

IsCodeBlockStart(e) == e.type = "Start" /\ e.tag.kind = "CodeBlock"

IsCodeBlockEnd(e) == e.type = "End" /\ e.tag.kind = "CodeBlock"

image_tag(block) == Image(file_name(block), block.graph_name)

\* tag_events with the text event left out.
tag_events_no_text(block) == <<EvStart(image_tag(block)), EvEnd(image_tag(block))>>

tag_events(block) ==
    <<EvStart(image_tag(block)), EvEnd(image_tag(block)), EvText(<<"\n", "\n">>)>>

----------------------------------------------------------------------------
(* The futures the scan of process_leaf_chapter creates *)

\* future::ready(Ok(events)): complete from the start.
ReadyFuture(events) ==
    [kind |-> "ready", block |-> None, tag_events |-> <<>>,
     state |-> "done", seq |-> 0, output |-> Ok(events)]

\* block.render_graphviz(renderer).map(|r| r.map(|_| tag_events)): an async
\* fn, so nothing of it runs before the future is first polled. seq is the
\* rank of the render among the completed ones (0 while it is not complete).
RenderFuture(block) ==
    [kind |-> "render", block |-> Some(block), tag_events |-> tag_events(block),
     state |-> "created", seq |-> 0, output |-> Ok(<<>>)]

\* The first poll of a render future: the renderer is called.
Invoked(future) == [future EXCEPT !.state = "running"]

\* A render future completes with the renderer's answer r, as the rank-th of
\* its chapter: .map(|r| r.map(|_| tag_events)).
Completed(future, r, rank) ==
    [future EXCEPT !.state = "done", !.seq = rank,
                   !.output = IF r.ok THEN Ok(future.tag_events) ELSE r]

\* The rank the next render to complete among futures gets.
NextRank(futures) == 1 + Cardinality({j \in DOMAIN futures : futures[j].seq > 0})

\* The counter that is not advanced.
NextIndex_stuck(index) == index

\* image_index += 1
NextIndex(index) == index + 1

\* The last arm that drops the event.
InsideOther_swallowed(e) == ReadyFuture(<<>>)

\* The last arm of the match under an open builder:
\* _ => future::ready(Ok(vec![e])).boxed()
InsideOther(e) == ReadyFuture(<<e>>)

\* The closure that starts a new builder at every trigger start, also under
\* an open builder.
ScanStep_restart(builder, index, e, chapter_name, chapter_path) ==
    IF IsCodeBlockStart(e) /\ find_at_0(e.tag.info, INFO_STRING_PREFIX)
    THEN [builder |-> Some(GraphvizBlockBuilder_new(e.tag.info, chapter_name,
                                                    chapter_path)),
          index |-> index,
          future |-> Some(ReadyFuture(<<>>)), panicked |-> FALSE]
    ELSE IF builder = None
    THEN [builder |-> builder, index |-> index,
          future |-> Some(ReadyFuture(<<e>>)), panicked |-> FALSE]
    ELSE IF e.type = "Text"
    THEN [builder |-> Some(append_code(builder[1], e.text)), index |-> index,
          future |-> Some(ReadyFuture(<<>>)), panicked |-> FALSE]
    ELSE IF IsCodeBlockEnd(e)
    THEN IF ~find_at_0(e.tag.info, INFO_STRING_PREFIX)
         THEN [builder |-> builder, index |-> index,
               future |-> None, panicked |-> TRUE]
         ELSE [builder |-> None, index |-> NextIndex(index),
               future |-> Some(RenderFuture(build(builder[1], index))),
               panicked |-> FALSE]
    ELSE [builder |-> builder, index |-> index,
          future |-> Some(InsideOther(e)), panicked |-> FALSE]

\* The closure given to Parser::map, applied to one event e with the captured
\* graphviz_block_builder and image_index: the new captures, the future the
\* closure returns, and whether the assert_eq! failed.
ScanStep(builder, index, e, chapter_name, chapter_path) ==
    IF builder # None
    THEN IF e.type = "Text"
         THEN [builder |-> Some(append_code(builder[1], e.text)), index |-> index,
               future |-> Some(ReadyFuture(<<>>)), panicked |-> FALSE]
         ELSE IF IsCodeBlockEnd(e)
         THEN IF ~find_at_0(e.tag.info, INFO_STRING_PREFIX)
              THEN [builder |-> builder, index |-> index,
                    future |-> None, panicked |-> TRUE]
              ELSE [builder |-> None, index |-> NextIndex(index),
                    future |-> Some(RenderFuture(build(builder[1], index))),
                    panicked |-> FALSE]
         ELSE [builder |-> builder, index |-> index,
               future |-> Some(InsideOther(e)), panicked |-> FALSE]
    ELSE IF IsCodeBlockStart(e) /\ find_at_0(e.tag.info, INFO_STRING_PREFIX)
         THEN [builder |-> Some(GraphvizBlockBuilder_new(e.tag.info, chapter_name,
                                                         chapter_path)),
               index |-> index,
               future |-> Some(ReadyFuture(<<>>)), panicked |-> FALSE]
         ELSE [builder |-> builder, index |-> index,
               future |-> Some(ReadyFuture(<<e>>)), panicked |-> FALSE]

\* GraphvizBlock::render_graphviz: the call it makes to the renderer.
RendererCall(block) ==
    [code |-> block.code, output_path |-> PathJoin(block.chapter_path, file_name(block))]

\* The outputs in the order the futures completed (the ready ones first).
JoinAll_by_completion(futures) ==
    LET key(i) == futures[i].seq * (Len(futures) + 1) + i
        order == SortSeq([i \in DOMAIN futures |-> i], LAMBDA a, b : key(a) < key(b))
    IN  [k \in DOMAIN futures |-> futures[order[k]].output]

\* future::join_all(futures).await: the outputs in the order of the futures.
JoinAll(futures) == [i \in DOMAIN futures |-> futures[i].output]

\* The collection that returns the error of the last output that is one.
RECURSIVE CollectResults_last_error(_)
CollectResults_last_error(outputs) ==
    IF outputs = <<>> THEN Ok(<<>>)
    ELSE LET rest == CollectResults_last_error(Tail(outputs))
         IN  IF ~rest.ok THEN rest
             ELSE IF ~Head(outputs).ok THEN Head(outputs)
             ELSE Ok(<<Head(outputs).value>> \o rest.value)

\* The collection that keeps the values and drops the errors.
CollectResults_skip_errors(outputs) ==
    Ok([k \in 1..Len(SelectSeq(outputs, LAMBDA o : o.ok)) |->
           SelectSeq(outputs, LAMBDA o : o.ok)[k].value])

\* .into_iter().collect::<Result<Vec<_>>>(): the values in order, or the error
\* of the first output that is one.
RECURSIVE CollectResults(_)
CollectResults(outputs) ==
    IF outputs = <<>> THEN Ok(<<>>)
    ELSE IF ~Head(outputs).ok THEN Head(outputs)
    ELSE LET rest == CollectResults(Tail(outputs))
         IN  IF rest.ok THEN Ok(<<Head(outputs).value>> \o rest.value) ELSE rest

\* .into_iter().flat_map(|e| e)
RECURSIVE Flatten(_)
Flatten(seqs) == IF seqs = <<>> THEN <<>> ELSE Head(seqs) \o Flatten(Tail(seqs))

----------------------------------------------------------------------------
(* Bounds and inputs of the one-chapter specification *)

\* The longest event stream the Parser yields.
MaxEvents == 6

\* " T c!": white space in front, and a character normalize_id drops.
ChapterNames == { <<" ", "T", " ", "c", "!">> }

\* "./", as a path of one component.
ChapterPaths == { << <<".">> >> }

\* Info strings: "dot" (no trigger), "dot process", "dot process G n " (named),
\* "x dot process" (the prefix not at the start).
InfoStrings ==
    { <<"d","o","t">>,
      INFO_STRING_PREFIX,
      INFO_STRING_PREFIX \o <<" ", "G", " ", "n", " ">>,
      <<"x", " ">> \o INFO_STRING_PREFIX }

Texts == { <<"a", "\n">>, <<" ", "b">> }

\* The code block the Parser is in after yielding `events`, if any.
ParserOpenBlock(events) ==
    LET marks == {i \in DOMAIN events :
                     IsCodeBlockStart(events[i]) \/ IsCodeBlockEnd(events[i])}
    IN  IF marks = {} THEN None
        ELSE LET last == CHOOSE i \in marks : \A j \in marks : j <= i
             IN  IF events[last].type = "Start" THEN Some(events[last].tag) ELSE None

\* What the Parser may yield next: inside a code block only its text and its
\* end; outside, text, other tags and the start of a code block.
NextEvents(events) ==
    IF ParserOpenBlock(events) # None
    THEN {EvText(t) : t \in Texts} \cup {EvEnd(ParserOpenBlock(events)[1])}
    ELSE {EvText(t) : t \in Texts}
         \cup {EvStart(Paragraph)}
         \cup {EvStart(CodeBlock(s)) : s \in InfoStrings}

\* What the renderer may answer.
RenderErrors == {"TimedOut", "InvalidData"}

\* cmark(events, &mut buf, None): the serialized form of the events.
cmark(events) == [cmark |-> events]

----------------------------------------------------------------------------
(* Graphviz::process_leaf_chapter *)

\* No call of normalize_id alone is under way.
NormIdle ==
    /\ norm_input = <<>>
    /\ norm_output = None
    /\ norm_again = None

\* No call of CommandLineGraphviz::render_graphviz is under way.
RenderIdle ==
    /\ render_args = None
    /\ rpc = "idle"
    /\ backoff = 0
    /\ rlog = <<>>
    /\ child = None
    /\ render_result = None

\* No call of Graphviz::run is under way.
RunIdle ==
    /\ book = <<>>
    /\ run_pc = "idle"
    /\ nstate = <<>>
    /\ nfutures = <<>>
    /\ nresult = <<>>
    /\ nrank = <<>>
    /\ run_calls = <<>>
    /\ run_cmark = <<>>
    /\ run_result = None

\* No call of process_leaf_chapter alone is under way.
LeafIdle ==
    /\ chapter = [name |-> <<>>, path |-> <<>>, content |-> "original"]
    /\ input = <<>>
    /\ graphviz_block_builder = None
    /\ image_index = 0
    /\ event_futures = <<>>
    /\ renderer_calls = <<>>
    /\ cmark_calls = <<>>
    /\ pc = "idle"
    /\ result = None

LeafInit ==
    /\ NormIdle
    /\ RenderIdle
    /\ RunIdle
    /\ chapter \in [name : ChapterNames, path : ChapterPaths, content : {"original"}]
    /\ input = <<>>
    /\ graphviz_block_builder = None
    /\ image_index = 0
    /\ event_futures = <<>>
    /\ renderer_calls = <<>>
    /\ cmark_calls = <<>>
    /\ pc = "scan"
    /\ result = None

\* The Parser yields the event e and the closure maps it to a future.
ScanEvent(e) ==
    /\ pc = "scan"
    /\ Len(input) < MaxEvents
    /\ LET step == ScanStep(graphviz_block_builder, image_index, e,
                            chapter.name, chapter.path)
       IN  /\ input' = Append(input, e)
           /\ graphviz_block_builder' = step.builder
           /\ image_index' = step.index
           /\ IF step.panicked
              THEN /\ pc' = "panicked"
                   /\ event_futures' = event_futures
              ELSE /\ pc' = pc
                   /\ event_futures' = Append(event_futures, step.future[1])
    /\ UNCHANGED <<chapter, renderer_calls, cmark_calls, result>>
    /\ UNCHANGED <<renderVars, runVars, normVars>>

\* The Parser is exhausted (it closes every block it opened), collect() ends
\* and join_all starts.
EndOfStream ==
    /\ pc = "scan"
    /\ ParserOpenBlock(input) = None
    /\ pc' = "join"
    /\ UNCHANGED <<chapter, input, graphviz_block_builder, image_index, event_futures,
                   renderer_calls, cmark_calls, result>>
    /\ UNCHANGED <<renderVars, runVars, normVars>>

\* join_all polls its futures in order: the first poll of a render future
\* runs GraphvizBlock::render_graphviz up to the renderer's first await.
RenderInvoke(i) ==
    /\ pc = "join"
    /\ i \in DOMAIN event_futures
    /\ event_futures[i].state = "created"
    /\ \A j \in 1..(i - 1) : event_futures[j].state # "created"
    /\ event_futures' = [event_futures EXCEPT ![i] = Invoked(@)]
    /\ renderer_calls' = Append(renderer_calls, RendererCall(event_futures[i].block[1]))
    /\ UNCHANGED <<chapter, input, graphviz_block_builder, image_index, cmark_calls,
                   pc, result>>
    /\ UNCHANGED <<renderVars, runVars, normVars>>

\* A running render completes, in any order among the running ones.
RenderComplete(i, r) ==
    /\ pc = "join"
    /\ i \in DOMAIN event_futures
    /\ event_futures[i].state = "running"
    /\ event_futures' =
           [event_futures EXCEPT ![i] = Completed(@, r, NextRank(event_futures))]
    /\ UNCHANGED <<chapter, input, graphviz_block_builder, image_index, renderer_calls,
                   cmark_calls, pc, result>>
    /\ UNCHANGED <<renderVars, runVars, normVars>>

\* Every future is done: the results are collected, and the events serialized.
LeafFinish ==
    /\ pc = "join"
    /\ \A i \in DOMAIN event_futures : event_futures[i].state = "done"
    /\ LET collected == CollectResults(JoinAll(event_futures))
       IN  IF ~collected.ok
           THEN /\ result' = Some(collected)
                /\ UNCHANGED <<chapter, cmark_calls>>
           ELSE LET events == Flatten(collected.value)
                IN  /\ cmark_calls' = Append(cmark_calls, events)
                    /\ \/ /\ chapter' = [chapter EXCEPT !.content = cmark(events)]
                          /\ result' = Some(Ok(chapter'))
                       \/ /\ result' = Some(Err("Markdown serialization failed"))
                          /\ UNCHANGED chapter
    /\ pc' = "done"
    /\ UNCHANGED <<input, graphviz_block_builder, image_index, event_futures,
                   renderer_calls>>
    /\ UNCHANGED <<renderVars, runVars, normVars>>

LeafNext ==
    \/ \E e \in NextEvents(input) : ScanEvent(e)
    \/ EndOfStream
    \/ \E i \in DOMAIN event_futures : RenderInvoke(i)
    \/ \E i \in DOMAIN event_futures :
          \E r \in {Ok(<<>>)} \cup {Err(x) : x \in RenderErrors} : RenderComplete(i, r)
    \/ LeafFinish

Init == LeafInit

Next == LeafNext

Spec == Init /\ [][Next]_vars

----------------------------------------------------------------------------
(* GraphvizBlockBuilder::new and build over wider inputs: the scan of one   *)
(* code block, for every chapter name and info string within the bounds,    *)
(* resumed at every block index up to MaxIndex.                              *)

MaxNameLen == 2

MaxSuffixLen == 2

MaxIndex == 10

NameChars == {"a", "A", " ", "-", "!", "U+00C9"}

SuffixChars == {" ", "G", "_"}

\* The strings over chars of length at most n.
StringsUpTo(chars, n) == UNION {[1..k -> chars] : k \in 0..n}

BuildInfoStrings ==
    {INFO_STRING_PREFIX \o suffix : suffix \in StringsUpTo(SuffixChars, MaxSuffixLen)}

\* Info strings without the prefix at their start: "dot", "dot proces",
\* " dot process" and "x dot process".
BuildOtherInfoStrings ==
    { <<"d","o","t">>,
      SubSeq(INFO_STRING_PREFIX, 1, Len(INFO_STRING_PREFIX) - 1),
      <<" ">> \o INFO_STRING_PREFIX,
      <<"x", " ">> \o INFO_STRING_PREFIX }

BuildNextEvents(events) ==
    IF events = <<>>
    THEN {EvStart(CodeBlock(s)) : s \in BuildInfoStrings \cup BuildOtherInfoStrings}
    ELSE IF ParserOpenBlock(events) # None THEN {EvEnd(ParserOpenBlock(events)[1])}
    ELSE {}

BuildInit ==
    /\ NormIdle
    /\ RenderIdle
    /\ RunIdle
    /\ chapter \in [name : StringsUpTo(NameChars, MaxNameLen), path : ChapterPaths,
                     content : {"original"}]
    /\ input = <<>>
    /\ graphviz_block_builder = None
    /\ image_index \in 0..MaxIndex
    /\ event_futures = <<>>
    /\ renderer_calls = <<>>
    /\ cmark_calls = <<>>
    /\ pc = "scan"
    /\ result = None

BuildNext == \E e \in BuildNextEvents(input) : ScanEvent(e)

SpecBuild == BuildInit /\ [][BuildNext]_vars

----------------------------------------------------------------------------
(* Graphviz::run, process_section and process_sub_items *)

\* The number of places (items) of the book.
MaxNodes == 3

Places == 1..MaxNodes

\* The shape of the book: place 0 stands for the book itself, places 1 and 2
\* are its sections, places 2p + 1 and 2p + 2 the sub items of place p.
Parent(n) == (n - 1) \div 2

\* The places of the sub items of p (of the sections, for p = 0), in order.
SubItems(p) ==
    LET subs == {n \in Places : Parent(n) = p}
    IN  SortSeq([k \in 1..Cardinality(subs) |->
                    CHOOSE n \in subs : Cardinality({m \in subs : m < n}) = k - 1],
                LAMBDA a, b : a < b)

Separator == [kind |-> "Separator"]

Chapter(name, path, content) ==
    [kind |-> "Chapter", name |-> name, path |-> path, content |-> content]

\* The items a place may hold: chapters "A" in a.md and in b.md of the same
\* directory, each with one unnamed block; a chapter "B" in d/c.md with two
\* blocks, the second named; a chapter without blocks; a separator.
RunItems ==
    { Chapter(<<"A">>, << <<"a">> >>,
              <<EvStart(CodeBlock(INFO_STRING_PREFIX)), EvText(<<"a", "\n">>),
                EvEnd(CodeBlock(INFO_STRING_PREFIX))>>),
      Chapter(<<"A">>, << <<"b">> >>,
              <<EvText(<<" ", "b">>), EvStart(CodeBlock(INFO_STRING_PREFIX)),
                EvEnd(CodeBlock(INFO_STRING_PREFIX))>>),
      Chapter(<<"B">>, << <<"d">>, <<"c">> >>,
              <<EvStart(CodeBlock(INFO_STRING_PREFIX)),
                EvEnd(CodeBlock(INFO_STRING_PREFIX)),
                EvStart(CodeBlock(INFO_STRING_PREFIX \o <<" ", "G">>)),
                EvEnd(CodeBlock(INFO_STRING_PREFIX \o <<" ", "G">>))>>),
      Chapter(<<"B">>, << <<"e">> >>,
              <<EvStart(CodeBlock(<<"d","o","t">>)), EvEnd(CodeBlock(<<"d","o","t">>))>>),
      Separator }

\* ctx.root.join(&ctx.config.book.src)
src_dir == << <<"s","r","c">> >>

\* src_dir.join(&original_chapter.path), for a relative chapter path.
PathJoinRelative(base, rel) == base \o rel

\* PathBuf::pop
PathPop(path) == IF path = <<>> THEN path ELSE SubSeq(path, 1, Len(path) - 1)

\* The scan of process_leaf_chapter over a whole event stream: the futures
\* collected, or the panic of the assert_eq!.
RECURSIVE ScanFrom(_, _, _, _, _)
ScanFrom(builder, index, events, chapter_name, chapter_path) ==
    IF events = <<>> THEN [futures |-> <<>>, panicked |-> FALSE]
    ELSE LET step == ScanStep(builder, index, Head(events), chapter_name, chapter_path)
         IN  IF step.panicked THEN [futures |-> <<>>, panicked |-> TRUE]
             ELSE LET rest == ScanFrom(step.builder, step.index, Tail(events),
                                       chapter_name, chapter_path)
                  IN  [futures |-> <<step.future[1]>> \o rest.futures,
                       panicked |-> rest.panicked]

ScanAll(events, chapter_name, chapter_path) ==
    ScanFrom(None, 0, events, chapter_name, chapter_path)

\* The number of trigger blocks of the whole book.
MaxBlocks == 3

\* The trigger blocks of the items at the places 1..n.
RECURSIVE BookBlocks(_, _)
BookBlocks(items, n) ==
    IF n = 0 THEN 0
    ELSE BookBlocks(items, n - 1)
         + (IF items[n].kind = "Chapter"
            THEN Cardinality({i \in DOMAIN items[n].content :
                                 IsCodeBlockEnd(items[n].content[i])
                                 /\ find_at_0(items[n].content[i].tag.info,
                                              INFO_STRING_PREFIX)})
            ELSE 0)

RunInit ==
    /\ NormIdle
    /\ LeafIdle
    /\ RenderIdle
    /\ book \in [Places -> RunItems]
    /\ \A n \in Places : SubItems(n) # <<>> => book[n].kind = "Chapter"
    /\ BookBlocks(book, MaxNodes) <= MaxBlocks
    /\ run_pc = "start"
    /\ nstate = [n \in Places |-> "none"]
    /\ nfutures = [n \in Places |-> <<>>]
    /\ nresult = [n \in Places |-> None]
    /\ nrank = [n \in Places |-> 0]
    /\ run_calls = [n \in Places |-> <<>>]
    /\ run_cmark = [n \in Places |-> <<>>]
    /\ run_result = None

\* Runtime::new()? fails.
RunNoRuntime ==
    /\ run_pc = "start"
    /\ run_pc' = "done"
    /\ run_result' = Some(Err("Runtime::new failed"))
    /\ UNCHANGED <<book, nstate, nfutures, nresult, nrank, run_calls, run_cmark>>
    /\ UNCHANGED <<leafVars, renderVars, normVars>>

\* run maps every section to its process_section future and blocks on
\* join_all.
RunStart ==
    /\ run_pc = "start"
    /\ run_pc' = "join"
    /\ nstate' = [n \in Places |-> IF Parent(n) = 0 THEN "created" ELSE "none"]
    /\ UNCHANGED <<book, nfutures, nresult, nrank, run_calls, run_cmark, run_result>>
    /\ UNCHANGED <<leafVars, renderVars, normVars>>

\* The rank the process_section future of place n gets when it completes:
\* one more than the number of completed futures of the same list.
NextSectionRank(n) ==
    1 + Cardinality({m \in Places : Parent(m) = Parent(n) /\ nrank[m] > 0})

\* The process_section futures of the sub items of p (of the sections, for
\* p = 0) as join_all holds them once all are complete: in the order of the
\* items, each with its output and the rank of its completion.
SectionFutures(p) ==
    LET subs == SubItems(p)
    IN  [k \in DOMAIN subs |->
            [state |-> "done", seq |-> nrank[subs[k]], output |-> nresult[subs[k]][1]]]

\* The first poll of the process_section future of place n, which join_all
\* makes after that of the items before it: an item that is no chapter is
\* ready as it is; for a chapter process_leaf_chapter scans the content.
SectionPoll(n) ==
    /\ run_pc = "join"
    /\ nstate[n] = "created"
    /\ \A m \in Places : (Parent(m) = Parent(n) /\ m < n) => nstate[m] # "created"
    /\ IF book[n].kind # "Chapter"
       THEN /\ nstate' = [nstate EXCEPT ![n] = "ok"]
            /\ nresult' = [nresult EXCEPT ![n] = Some(Ok(book[n]))]
            /\ nrank' = [nrank EXCEPT ![n] = NextSectionRank(n)]
            /\ UNCHANGED <<nfutures, run_pc>>
       ELSE LET full_path == PathPop(PathJoinRelative(src_dir, book[n].path))
                scan == ScanAll(book[n].content, book[n].name, full_path)
            IN  /\ nfutures' = [nfutures EXCEPT ![n] = scan.futures]
                /\ nstate' = [nstate EXCEPT ![n] = "leaf"]
                /\ run_pc' = IF scan.panicked THEN "panicked" ELSE run_pc
                /\ UNCHANGED <<nresult, nrank>>
    /\ UNCHANGED <<book, run_calls, run_cmark, run_result>>
    /\ UNCHANGED <<leafVars, renderVars, normVars>>

\* The first poll of a render future of chapter n, in the order of the
\* futures: the renderer is called.
NodeRenderInvoke(n, i) ==
    /\ run_pc = "join"
    /\ nstate[n] = "leaf"
    /\ i \in DOMAIN nfutures[n]
    /\ nfutures[n][i].state = "created"
    /\ \A j \in 1..(i - 1) : nfutures[n][j].state # "created"
    /\ nfutures' = [nfutures EXCEPT ![n][i] = Invoked(@)]
    /\ run_calls' = [run_calls EXCEPT ![n] =
                        Append(@, [position |-> i,
                                   call |-> RendererCall(nfutures[n][i].block[1]),
                                   outcome |-> "running", rank |-> 0])]
    /\ UNCHANGED <<book, run_pc, nstate, nresult, nrank, run_cmark, run_result>>
    /\ UNCHANGED <<leafVars, renderVars, normVars>>

\* The error of the render of the block that ends at position i of chapter n.
RenderError(n, i) == Err([error |-> "render", place |-> n, position |-> i])

\* The error of the serialization of chapter n.
CmarkError(n) ==
    Err([error |-> "Markdown serialization failed", place |-> n, position |-> 0])

\* A running render of chapter n completes, with success or with an error.
NodeRenderComplete(n, i, ok) ==
    /\ run_pc = "join"
    /\ nstate[n] = "leaf"
    /\ i \in DOMAIN nfutures[n]
    /\ nfutures[n][i].state = "running"
    /\ nfutures' = [nfutures EXCEPT ![n][i] =
                        Completed(@, IF ok THEN Ok(<<>>) ELSE RenderError(n, i),
                                  NextRank(nfutures[n]))]
    /\ run_calls' = [run_calls EXCEPT ![n] =
                        [k \in DOMAIN @ |->
                            IF @[k].position = i
                            THEN [@[k] EXCEPT !.outcome = IF ok THEN "ok" ELSE "err",
                                              !.rank = NextRank(nfutures[n])]
                            ELSE @[k]]]
    /\ UNCHANGED <<book, run_pc, nstate, nresult, nrank, run_cmark, run_result>>
    /\ UNCHANGED <<leafVars, renderVars, normVars>>

\* The sub items process_section descends into once process_leaf_chapter
\* of chapter n has returned leaf: all of them after Ok(chapter), none after
\* an error (e => e).
DescendInto_always(leaf, n) == {m \in Places : Parent(m) = n}

DescendInto(leaf, n) == IF leaf.ok THEN {m \in Places : Parent(m) = n} ELSE {}

\* Every event future of chapter n is done: process_leaf_chapter returns an
\* error, or serializes the events and returns the chapter, and then
\* process_section takes the sub items out of it and maps them to their
\* futures.
NodeLeafFinish(n) ==
    /\ run_pc = "join"
    /\ nstate[n] = "leaf"
    /\ \A i \in DOMAIN nfutures[n] : nfutures[n][i].state = "done"
    /\ LET collected == CollectResults(JoinAll(nfutures[n]))
           events == Flatten(collected.value)
           processed == Ok([kind |-> "Chapter", name |-> book[n].name,
                            path |-> book[n].path, content |-> cmark(events),
                            sub_items |-> <<>>])
       IN  \E leaf \in (IF collected.ok THEN {processed, CmarkError(n)} ELSE {collected}) :
              /\ run_cmark' = IF collected.ok
                              THEN [run_cmark EXCEPT ![n] =
                                       Append(@, [events |-> events, ok |-> leaf.ok])]
                              ELSE run_cmark
              /\ nstate' = [m \in Places |->
                               IF m = n THEN (IF leaf.ok THEN "sub" ELSE "err")
                               ELSE IF m \in DescendInto(leaf, n) THEN "created"
                               ELSE nstate[m]]
              /\ nresult' = [nresult EXCEPT ![n] = Some(leaf)]
              /\ nrank' = IF leaf.ok THEN nrank
                          ELSE [nrank EXCEPT ![n] = NextSectionRank(n)]
    /\ nfutures' = [nfutures EXCEPT ![n] = <<>>]
    /\ UNCHANGED <<book, run_pc, run_calls, run_result>>
    /\ UNCHANGED <<leafVars, renderVars, normVars>>

\* join_all of the sub items of chapter n is done: process_sub_items
\* collects, and process_section returns the chapter with them, or the error.
NodeSubFinish(n) ==
    /\ run_pc = "join"
    /\ nstate[n] = "sub"
    /\ \A c \in Places : Parent(c) = n => nstate[c] \in {"ok", "err"}
    /\ LET collected == CollectResults(JoinAll(SectionFutures(n)))
       IN  IF collected.ok
           THEN /\ nstate' = [nstate EXCEPT ![n] = "ok"]
                /\ nresult' = [nresult EXCEPT ![n] =
                       Some(Ok([nresult[n][1].value EXCEPT
                                    !.sub_items = collected.value]))]
           ELSE /\ nstate' = [nstate EXCEPT ![n] = "err"]
                /\ nresult' = [nresult EXCEPT ![n] = Some(collected)]
    /\ nrank' = [nrank EXCEPT ![n] = NextSectionRank(n)]
    /\ UNCHANGED <<book, run_pc, nfutures, run_calls, run_cmark, run_result>>
    /\ UNCHANGED <<leafVars, renderVars, normVars>>

\* join_all of the sections is done: run collects and returns the book.
RunFinish ==
    /\ run_pc = "join"
    /\ \A c \in Places : Parent(c) = 0 => nstate[c] \in {"ok", "err"}
    /\ LET collected == CollectResults(JoinAll(SectionFutures(0)))
       IN  run_result' = IF collected.ok THEN Some(Ok([sections |-> collected.value]))
                         ELSE Some(collected)
    /\ run_pc' = "done"
    /\ UNCHANGED <<book, nstate, nfutures, nresult, nrank, run_calls, run_cmark>>
    /\ UNCHANGED <<leafVars, renderVars, normVars>>

RunNext ==
    \/ RunNoRuntime
    \/ RunStart
    \/ \E n \in Places : SectionPoll(n)
    \/ \E n \in Places : \E i \in DOMAIN nfutures[n] : NodeRenderInvoke(n, i)
    \/ \E n \in Places : \E i \in DOMAIN nfutures[n] :
          \E ok \in BOOLEAN : NodeRenderComplete(n, i, ok)
    \/ \E n \in Places : NodeLeafFinish(n)
    \/ \E n \in Places : NodeSubFinish(n)
    \/ RunFinish

SpecRun == RunInit /\ [][RunNext]_vars

----------------------------------------------------------------------------
(* What the properties below read off the input stream *)

HasTriggerPrefix(info) ==
    /\ Len(info) >= Len(INFO_STRING_PREFIX)
    /\ \A k \in 1..Len(INFO_STRING_PREFIX) : info[k] = INFO_STRING_PREFIX[k]

TriggerStart(e) ==
    e.type = "Start" /\ e.tag.kind = "CodeBlock" /\ HasTriggerPrefix(e.tag.info)

TriggerEnd(e) ==
    e.type = "End" /\ e.tag.kind = "CodeBlock" /\ HasTriggerPrefix(e.tag.info)

TriggerEnds(events) == {i \in DOMAIN events : TriggerEnd(events[i])}

\* The start event of the code block that ends at position i.
MatchingStart(events, i) ==
    CHOOSE j \in 1..(i - 1) :
        /\ IsCodeBlockStart(events[j])
        /\ \A k \in (j + 1)..(i - 1) : ~IsCodeBlockStart(events[k])

\* Position i lies in a trigger block: from its start up to its end.
InTriggerBlock(events, i) ==
    \E j \in 1..i :
        /\ TriggerStart(events[j])
        /\ \A k \in j..(i - 1) : ~IsCodeBlockEnd(events[k])

Rank(positions, i) == Cardinality({j \in positions : j < i})

RECURSIVE Concat(_)
Concat(seqs) == IF seqs = <<>> THEN <<>> ELSE Head(seqs) \o Concat(Tail(seqs))

\* The texts of the text events at positions from..to, concatenated.
TextBetween(events, from, to) ==
    Concat([k \in 1..(to - from + 1) |->
               IF events[from + k - 1].type = "Text" THEN events[from + k - 1].text
               ELSE <<>>])

RECURSIVE ParseDecimal(_)
ParseDecimal(s) ==
    IF s = <<>> THEN 0
    ELSE ParseDecimal(SubSeq(s, 1, Len(s) - 1)) * 10
         + ((CHOOSE d \in DOMAIN AsciiDigitSeq : AsciiDigitSeq[d] = s[Len(s)]) - 1)

\* The index written in an image name: the number between its last "_" and
\* ".generated".
AssignedIndex(image_name) ==
    LET body == SubSeq(image_name, 1, Len(image_name) - Len(GENERATED))
        last == CHOOSE k \in DOMAIN body :
                    body[k] = "_" /\ \A m \in (k + 1)..Len(body) : body[m] # "_"
    IN  ParseDecimal(SubSeq(body, last + 1, Len(body)))

RenderPositions == {i \in DOMAIN event_futures : event_futures[i].kind = "render"}

AllRendersOk ==
    \A i \in DOMAIN event_futures :
        event_futures[i].state = "done" /\ event_futures[i].output.ok

\* Two renders, the later block's completed first.
CompletedOutOfOrder ==
    \E i, j \in RenderPositions :
        i < j /\ event_futures[j].seq > 0 /\ event_futures[j].seq < event_futures[i].seq

----------------------------------------------------------------------------
(* C1: a stream with no code-block start whose info string begins with      *)
(* "dot process" is emitted as it is: every event is passed through in      *)
(* order, no builder is created, the renderer is not called and the block   *)
(* index stays 0.                                                           *)
C1_NoTriggerIsIdentity ==
    (\A i \in DOMAIN input : ~TriggerStart(input[i])) =>
        /\ pc # "panicked"
        /\ graphviz_block_builder = None
        /\ image_index = 0
        /\ renderer_calls = <<>>
        /\ Len(event_futures) = Len(input)
        /\ \A i \in DOMAIN input :
               /\ event_futures[i].kind = "ready"
               /\ event_futures[i].output = Ok(<<input[i]>>)
        /\ pc = "done" => cmark_calls = <<input>>

C1_Witness ==
    /\ pc = "done"
    /\ \A i \in DOMAIN input : ~TriggerStart(input[i])
    /\ \E i \in DOMAIN input : IsCodeBlockStart(input[i]) /\ input[i].tag.info # <<"d","o","t">>
    /\ \E i \in DOMAIN input : input[i].type = "Text"
    /\ cmark_calls = <<input>>

(* C2: the k-th block finalized in a scan (k from 0, in the order of the    *)
(* block ends in the stream) gets index k, the counter counts the blocks    *)
(* finalized, and neither changes while the renders run and complete.       *)
C2_IndicesInDocumentOrder ==
    /\ pc # "panicked"
    /\ RenderPositions = TriggerEnds(input)
    /\ image_index = Cardinality(TriggerEnds(input))
    /\ \A i \in RenderPositions :
           AssignedIndex(event_futures[i].block[1].image_name)
               = Rank(TriggerEnds(input), i)

C2_Witness ==
    /\ pc = "done"
    /\ Cardinality(RenderPositions) >= 2
    /\ CompletedOutOfOrder

(* C3: when every render of the chapter succeeds, the events handed to the  *)
(* serializer are, position by position of the input, the replacement       *)
(* events of a block at the block's end, nothing for the other events of a  *)
(* block, and the event itself elsewhere, whatever the completion order.    *)
C3_SplicedInOriginalOrder ==
    (pc = "done" /\ AllRendersOk) =>
        cmark_calls =
            << Concat([i \in DOMAIN input |->
                          IF i \in TriggerEnds(input) THEN event_futures[i].tag_events
                          ELSE IF InTriggerBlock(input, i) THEN <<>>
                          ELSE <<input[i]>>]) >>

C3_Witness ==
    /\ pc = "done"
    /\ AllRendersOk
    /\ CompletedOutOfOrder
    /\ \E i \in DOMAIN input : ~InTriggerBlock(input, i)

(* C5: a trigger block whose render succeeded emits, over the whole span    *)
(* from its start to its end, exactly an image start tag, an image end tag  *)
(* and the text "\n\n"; the image's target is the block's file name and     *)
(* its title the graph name.                                                *)
C5_ThreeReplacementEvents ==
    \A i \in RenderPositions :
        (event_futures[i].state = "done" /\ event_futures[i].output.ok) =>
            LET j == MatchingStart(input, i)
                block == event_futures[i].block[1]
                img == [kind |-> "Image", link_type |-> "Inline",
                        dest |-> block.image_name \o SVG, title |-> block.graph_name]
            IN  Concat([k \in 1..(i - j + 1) |-> event_futures[j + k - 1].output.value])
                    = << [type |-> "Start", tag |-> img],
                         [type |-> "End", tag |-> img],
                         [type |-> "Text", text |-> <<"\n", "\n">>] >>

C5_Witness ==
    \E i \in RenderPositions :
        /\ event_futures[i].state = "done" /\ event_futures[i].output.ok
        /\ event_futures[i].block[1].graph_name # <<>>
        /\ i - MatchingStart(input, i) >= 2

(* C6: when process_leaf_chapter has returned, the renderer was called once *)
(* per finalized block, in the order of the blocks, with the block's text   *)
(* events concatenated and trimmed as the source and the chapter's          *)
(* directory joined with the block's file name as the output path.          *)
C6_OneRenderPerBlock ==
    pc = "done" =>
        /\ Len(renderer_calls) = Cardinality(TriggerEnds(input))
        /\ \A i \in TriggerEnds(input) :
               LET call == renderer_calls[Rank(TriggerEnds(input), i) + 1]
                   j == MatchingStart(input, i)
               IN  /\ call.code = trim(TextBetween(input, j, i))
                   /\ call.output_path =
                          chapter.path
                              \o << event_futures[i].block[1].image_name \o SVG >>

C6_Witness ==
    /\ pc = "done"
    /\ \E i \in TriggerEnds(input) :
           /\ i - MatchingStart(input, i) >= 3
           /\ renderer_calls[Rank(TriggerEnds(input), i) + 1].code # <<>>
    /\ \E i \in DOMAIN input : IsCodeBlockEnd(input[i]) /\ ~TriggerEnd(input[i])

----------------------------------------------------------------------------
(* CommandLineGraphviz::render_graphviz and spawn_backoff *)

MAX_SPAWN_RETRIES == 5

\* The sources and output paths a call is made with; an output path may not
\* be valid UTF-8, and then to_str() is None.
RenderCodes == { <<>>, <<"a">>, <<"a", "b">>, <<"a", "\n", "b">> }

RenderPaths == { [components |-> << <<".">>, <<"_", "0">> \o GENERATED \o SVG >>,
                  utf8 |-> TRUE],
                 [components |-> << <<"U+FFFD">>, <<"_", "0">> \o GENERATED \o SVG >>,
                  utf8 |-> FALSE] }

\* The exit statuses of the subprocess.
ExitStatuses == {0, 1}

\* The loop that starts one step early.
BackoffRange_from_zero == 0..MAX_SPAWN_RETRIES

\* for backoff in 1..=MAX_SPAWN_RETRIES
BackoffRange == 1..MAX_SPAWN_RETRIES

\* The delay that grows linearly.
SleepTime_linear(n) == n * 10

\* let sleep_time = backoff.pow(2) * 10 (u64; at most 250 here)
SleepTime(n) == (n ^ 2) * 10

\* The exit status that is not looked at.
ExitResult_ignored(status) == Ok("unit")

\* if child.await?.success() { Ok(()) } else { Err(InvalidData) }
ExitResult(status) ==
    IF status = 0 THEN Ok("unit") ELSE Err("InvalidData: Error response from Graphviz")

RenderInit ==
    /\ NormIdle
    /\ LeafIdle
    /\ RunIdle
    /\ render_args \in {Some([code |-> c, output_path |-> p]) :
                            c \in RenderCodes, p \in RenderPaths}
    /\ rpc = "start"
    /\ backoff = 0
    /\ rlog = <<>>
    /\ child = None
    /\ render_result = None

\* output_path.to_str().ok_or_else(..)?, then spawn_backoff is entered.
RenderStart ==
    /\ rpc = "start"
    /\ IF render_args[1].output_path.utf8
       THEN /\ rpc' = "spawn"
            /\ backoff' = CHOOSE n \in BackoffRange : \A m \in BackoffRange : n <= m
            /\ UNCHANGED render_result
       ELSE /\ rpc' = "done"
            /\ render_result' = Some(Err("NotFound: Couldn't build output path"))
            /\ UNCHANGED backoff
    /\ UNCHANGED <<render_args, rlog, child>>
    /\ UNCHANGED <<leafVars, runVars, normVars>>

\* One pass of the loop of spawn_backoff whose spawn() succeeds: the child
\* is returned, with its stdin piped.
SpawnOk ==
    /\ rpc = "spawn"
    /\ rlog' = Append(rlog, [op |-> "spawn", n |-> backoff, ok |-> TRUE])
    /\ child' = Some([stdin |-> "open", received |-> <<>>])
    /\ rpc' = "write"
    /\ UNCHANGED <<render_args, backoff, render_result>>
    /\ UNCHANGED <<leafVars, runVars, normVars>>

\* One pass of the loop whose spawn() fails: the thread sleeps, and the loop
\* goes on or, past its last pass, spawn_backoff returns the TimedOut error.
SpawnFail ==
    /\ rpc = "spawn"
    /\ rlog' = rlog \o << [op |-> "spawn", n |-> backoff, ok |-> FALSE],
                           [op |-> "sleep", ms |-> SleepTime(backoff)] >>
    /\ IF backoff + 1 \in BackoffRange
       THEN /\ backoff' = backoff + 1
            /\ UNCHANGED <<rpc, render_result>>
       ELSE /\ rpc' = "done"
            /\ render_result' = Some(Err("TimedOut: Couldn't spawn child process"))
            /\ UNCHANGED backoff
    /\ UNCHANGED <<render_args, child>>
    /\ UNCHANGED <<leafVars, runVars, normVars>>

\* The stdin that is written through a borrow and stays with the child.
DropStdin_kept(c) == c

\* The stdin taken out of the child goes out of scope at the end of the
\* if let block, or at the return of the `?`: the pipe is closed.
DropStdin(c) == [c EXCEPT !.stdin = "closed"]

\* child.stdin().take() and stdin.write_all(code).await?: all of the code is
\* written, or the write fails after a part of it; stdin is dropped, and so
\* closed, either way.
WriteStdin(n) ==
    /\ rpc = "write"
    /\ n \in 0..Len(render_args[1].code)
    /\ child' = Some(DropStdin([child[1] EXCEPT
                                    !.received = SubSeq(render_args[1].code, 1, n)]))
    /\ IF n = Len(render_args[1].code)
       THEN /\ rlog' = Append(rlog, [op |-> "write", ok |-> TRUE])
            /\ rpc' = "wait"
            /\ UNCHANGED render_result
       ELSE /\ rlog' = Append(rlog, [op |-> "write", ok |-> FALSE])
            /\ rpc' = "done"
            /\ render_result' = Some(Err("Io: write failed"))
    /\ UNCHANGED <<render_args, backoff>>
    /\ UNCHANGED <<leafVars, runVars, normVars>>

\* child.await? yields the exit status.
ChildExit(status) ==
    /\ rpc = "wait"
    /\ rlog' = Append(rlog, [op |-> "await", stdin |-> child[1].stdin,
                             status |-> Some(status)])
    /\ render_result' = Some(ExitResult(status))
    /\ rpc' = "done"
    /\ UNCHANGED <<render_args, backoff, child>>
    /\ UNCHANGED <<leafVars, runVars, normVars>>

\* child.await? fails.
ChildAwaitError ==
    /\ rpc = "wait"
    /\ rlog' = Append(rlog, [op |-> "await", stdin |-> child[1].stdin, status |-> None])
    /\ render_result' = Some(Err("Io: await failed"))
    /\ rpc' = "done"
    /\ UNCHANGED <<render_args, backoff, child>>
    /\ UNCHANGED <<leafVars, runVars, normVars>>

RenderNext ==
    \/ RenderStart
    \/ SpawnOk
    \/ SpawnFail
    \/ \E n \in 0..Len(render_args[1].code) : WriteStdin(n)
    \/ \E status \in ExitStatuses : ChildExit(status)
    \/ ChildAwaitError

SpecRender == RenderInit /\ [][RenderNext]_vars

----------------------------------------------------------------------------
(* C4: the artifact base name of a finalized block is                       *)
(* normalize(node_name) "_" normalize(graph_name) "_" index ".generated"    *)
(* with a graph name and normalize(node_name) "_" index ".generated"        *)
(* without one, and the file name is the base name followed by ".svg".      *)
(* As the claim has it, node_name is the display name exactly as supplied.  *)
C4_NameAsSupplied ==
    \A i \in RenderPositions :
        LET block == event_futures[i].block[1]
            index == fmt_usize(image_index - 1)
        IN  /\ block.image_name =
                   IF block.graph_name # <<>>
                   THEN normalize_id(chapter.name) \o <<"_">>
                        \o normalize_id(block.graph_name) \o <<"_">> \o index \o GENERATED
                   ELSE normalize_id(chapter.name) \o <<"_">> \o index \o GENERATED
            /\ event_futures[i].tag_events[1].tag.dest = block.image_name \o SVG

(* C4 as the code has it: node_name is the display name with its leading    *)
(* and trailing white space removed.                                        *)
C4_NameTrimmed ==
    \A i \in RenderPositions :
        LET block == event_futures[i].block[1]
            index == fmt_usize(image_index - 1)
        IN  /\ block.image_name =
                   IF block.graph_name # <<>>
                   THEN normalize_id(trim(chapter.name)) \o <<"_">>
                        \o normalize_id(block.graph_name) \o <<"_">> \o index \o GENERATED
                   ELSE normalize_id(trim(chapter.name)) \o <<"_">> \o index \o GENERATED
            /\ event_futures[i].tag_events[1].tag.dest = block.image_name \o SVG

C4_Witness ==
    \E i \in RenderPositions :
        /\ event_futures[i].block[1].graph_name # <<>>
        /\ chapter.name # <<>> /\ is_whitespace(chapter.name[1])
        /\ trim(chapter.name) # <<>>
        /\ image_index - 1 >= 10

----------------------------------------------------------------------------
(* What the properties below read off the log of a render_graphviz call *)

SpawnLog == SelectSeq(rlog, LAMBDA x : x.op = "spawn")

SleepLog == SelectSeq(rlog, LAMBDA x : x.op = "sleep")

\* The number of the spawn attempt logged at position k: 1 for the first.
AttemptNumber(k) == Cardinality({m \in 1..k : rlog[m].op = "spawn"})

TimedOutError == Err("TimedOut: Couldn't spawn child process")

(* C7: spawn_backoff makes at most 5 spawn attempts: none after one that    *)
(* succeeded, whose child it returns; after 5 failed attempts it has        *)
(* returned the TimedOut error, which it returns in no other case.          *)
C7_AtMostFiveSpawns ==
    /\ Len(SpawnLog) <= 5
    /\ \A k \in 1..(Len(SpawnLog) - 1) : ~SpawnLog[k].ok
    /\ (child # None) <=> (SpawnLog # <<>> /\ SpawnLog[Len(SpawnLog)].ok)
    /\ rpc = "spawn" => Len(SpawnLog) < 5
    /\ (Len(SpawnLog) = 5 /\ ~SpawnLog[5].ok) =>
           (rpc = "done" /\ render_result = Some(TimedOutError))
    /\ render_result = Some(TimedOutError) =>
           (Len(SpawnLog) = 5 /\ \A k \in 1..5 : ~SpawnLog[k].ok)

C7_Witness ==
    /\ Len(SpawnLog) = 5
    /\ \A k \in 1..5 : ~SpawnLog[k].ok
    /\ render_result = Some(TimedOutError)

(* C8: as the claim has it, every spawn attempt n is preceded by a sleep of *)
(* n^2 * 10 ms.                                                             *)
C8_DelayBeforeAttempt ==
    \A k \in DOMAIN rlog :
        rlog[k].op = "spawn" =>
            /\ k > 1
            /\ rlog[k - 1].op = "sleep"
            /\ rlog[k - 1].ms = AttemptNumber(k) * AttemptNumber(k) * 10

(* C8 as the code has it: a sleep follows every failed spawn attempt n and  *)
(* lasts n^2 * 10 ms (10, 40, 90, 160, 250), the fifth included; nothing    *)
(* else is slept, so that nothing is slept before the first attempt.        *)
C8_DelayAfterFailedAttempt ==
    /\ \A k \in DOMAIN rlog :
           rlog[k].op = "sleep" =>
               /\ k > 1
               /\ rlog[k - 1].op = "spawn" /\ ~rlog[k - 1].ok
               /\ rlog[k].ms = AttemptNumber(k) * AttemptNumber(k) * 10
    /\ \A k \in DOMAIN rlog :
           (rlog[k].op = "spawn" /\ ~rlog[k].ok) =>
               (k < Len(rlog) /\ rlog[k + 1].op = "sleep")
    /\ \A k \in DOMAIN SleepLog : SleepLog[k].ms = <<10, 40, 90, 160, 250>>[k]

C8_Witness ==
    /\ Len(SleepLog) = 5
    /\ SleepLog[5].ms = 250
    /\ rlog[1].op = "spawn"

(* C9: after a successful spawn no spawn is attempted again; a failed       *)
(* write to stdin ends the call with an error, the child not awaited; a     *)
(* non-zero exit status ends it with an error; it returns Ok only after     *)
(* the child was awaited and exited with success.                           *)
C9_FailureAfterSpawnIsFinal ==
    /\ \A k, m \in DOMAIN rlog :
           (k < m /\ rlog[k].op = "spawn" /\ rlog[k].ok) => rlog[m].op # "spawn"
    /\ \A k \in DOMAIN rlog :
           (rlog[k].op = "write" /\ ~rlog[k].ok) =>
               /\ rpc = "done"
               /\ render_result # None /\ ~render_result[1].ok
               /\ \A m \in DOMAIN rlog : rlog[m].op # "await"
    /\ \A k \in DOMAIN rlog :
           (rlog[k].op = "await" /\ rlog[k].status # Some(0)) =>
               /\ rpc = "done"
               /\ render_result # None /\ ~render_result[1].ok
    /\ (render_result # None /\ render_result[1].ok) =>
           /\ rlog # <<>>
           /\ rlog[Len(rlog)].op = "await"
           /\ rlog[Len(rlog)].status = Some(0)

C9_Witness ==
    /\ \E k \in DOMAIN rlog : rlog[k].op = "write" /\ ~rlog[k].ok
    /\ \E k \in DOMAIN rlog : rlog[k].op = "spawn" /\ ~rlog[k].ok
    /\ child # None /\ child[1].received # <<>>
    /\ render_result # None /\ ~render_result[1].ok

----------------------------------------------------------------------------
(* What the properties below read off a run *)

\* A render of a block of chapter n failed.
RenderFailedAt(n) == \E k \in DOMAIN run_calls[n] : run_calls[n][k].outcome = "err"

\* The serialization of chapter n failed.
CmarkFailedAt(n) == \E k \in DOMAIN run_cmark[n] : ~run_cmark[n][k].ok

\* A result that is an error, and so holds no value.
IsError(res) == res # None /\ ~res[1].ok /\ DOMAIN res[1] = {"ok", "err"}

(* C10: a chapter with a failed render is not serialized; a chapter with a  *)
(* failed render or a failed serialization returns an error and no         *)
(* content; run then returns an error and no book, and it returns a book    *)
(* only when every chapter was scanned, rendered and serialized with        *)
(* success.                                                                 *)
C10_AllOrNothing ==
    /\ \A n \in DOMAIN nstate :
           /\ RenderFailedAt(n) => (run_cmark[n] = <<>> /\ nstate[n] \in {"leaf", "err"})
           /\ (RenderFailedAt(n) \/ CmarkFailedAt(n)) =>
                  IF nstate[n] = "leaf" THEN nresult[n] = None
                  ELSE nstate[n] = "err" /\ IsError(nresult[n])
    /\ run_result # None =>
           /\ (\E n \in DOMAIN nstate : RenderFailedAt(n) \/ CmarkFailedAt(n)) =>
                  IsError(run_result)
           /\ run_result[1].ok =>
                  \A n \in DOMAIN nstate :
                      book[n].kind = "Chapter" =>
                          /\ nstate[n] = "ok"
                          /\ Len(run_calls[n]) = Cardinality(TriggerEnds(book[n].content))
                          /\ \A k \in DOMAIN run_calls[n] : run_calls[n][k].outcome = "ok"
                          /\ Len(run_cmark[n]) = 1 /\ run_cmark[n][1].ok

C10_Witness ==
    /\ run_result # None
    /\ IsError(run_result)
    /\ \E n \in DOMAIN nstate :
           /\ Parent(n) # 0
           /\ RenderFailedAt(n)
           /\ \E k \in DOMAIN run_calls[n] : run_calls[n][k].outcome = "ok"
    /\ \E n \in DOMAIN nstate : Parent(n) = 0 /\ nstate[n] = "ok" /\ book[n].kind = "Chapter"

\* Place p is above place n in the book.
RECURSIVE IsAncestor(_, _)
IsAncestor(p, n) == n # 0 /\ (Parent(n) = p \/ IsAncestor(p, Parent(n)))

\* The content of place n has been scanned.
Scanned(n) == nstate[n] \notin {"none", "created"}

\* Every render of chapter p was joined with success and its events were
\* serialized with success.
LeafSucceeded(p) ==
    /\ Len(run_calls[p]) = Cardinality(TriggerEnds(book[p].content))
    /\ \A k \in DOMAIN run_calls[p] : run_calls[p][k].outcome = "ok"
    /\ Len(run_cmark[p]) = 1 /\ run_cmark[p][1].ok

(* C11: when a place has been scanned or a render of one of its blocks has  *)
(* been invoked, every chapter above it has joined its own renders and     *)
(* serialized its own content with success; below a chapter whose own      *)
(* render or serialization failed no place is ever scanned and no renderer *)
(* call is ever made.                                                      *)
C11_DescendOnlyAfterOwnSuccess ==
    \A n \in DOMAIN nstate : \A p \in DOMAIN nstate :
        IsAncestor(p, n) =>
            /\ (Scanned(n) \/ run_calls[n] # <<>>) => LeafSucceeded(p)
            /\ (RenderFailedAt(p) \/ CmarkFailedAt(p)) =>
                   (~Scanned(n) /\ run_calls[n] = <<>>)

C11_Witness ==
    \E n \in DOMAIN nstate : \E p \in DOMAIN nstate :
        /\ IsAncestor(p, n)
        /\ run_calls[p] # <<>>
        /\ LeafSucceeded(p)
        /\ Scanned(n)
        /\ run_calls[n] # <<>>

\* The item out has the shape of the original item at place n: an item that
\* is no chapter is the original one; a chapter has the name and the path of
\* the original, and as many sub items, each of the shape of the original
\* sub item at the same position.
RECURSIVE SameShape(_, _)
SameShape(out, n) ==
    IF book[n].kind # "Chapter" THEN out = book[n]
    ELSE /\ DOMAIN out = {"kind", "name", "path", "content", "sub_items"}
         /\ out.kind = "Chapter"
         /\ out.name = book[n].name
         /\ out.path = book[n].path
         /\ Len(out.sub_items) = Len(SubItems(n))
         /\ \A k \in DOMAIN out.sub_items : SameShape(out.sub_items[k], SubItems(n)[k])

(* C12: the book a successful run returns has the shape of the original    *)
(* book: as many sections, and at every position of every list the item    *)
(* that was there, with its name and path, items that are no chapters      *)
(* unchanged, whatever the order in which the items completed.             *)
C12_SameShape ==
    (run_result # None /\ run_result[1].ok) =>
        LET sections == run_result[1].value.sections
        IN  /\ Len(sections) = Len(SubItems(0))
            /\ \A k \in DOMAIN sections : SameShape(sections[k], SubItems(0)[k])

C12_Witness ==
    /\ run_result # None
    /\ run_result[1].ok
    /\ \E a \in DOMAIN nstate : \E b \in DOMAIN nstate :
           /\ Parent(a) = Parent(b)
           /\ a < b
           /\ nrank[b] < nrank[a]
           /\ book[a] # book[b]
           /\ book[b].kind = "Chapter"
           /\ \E c \in DOMAIN nstate : Parent(c) = a /\ book[c] = Separator

\* The renderer calls made so far in the run: the place of the chapter and
\* the position of the call among the chapter's calls.
RunCalls == {c \in (DOMAIN run_calls) \X (1..MaxEvents) : c[2] \in DOMAIN run_calls[c[1]]}

(* C13: any two distinct blocks of the book, of one chapter or of two, are  *)
(* rendered to distinct output paths, so no two renders that run at the    *)
(* same time write to the same path.                                       *)
C13_DistinctOutputPaths ==
    \A c \in RunCalls : \A d \in RunCalls :
        c # d =>
            run_calls[c[1]][c[2]].call.output_path # run_calls[d[1]][d[2]].call.output_path

----------------------------------------------------------------------------
(* normalize_id on its own *)

\* The length of the strings given to normalize_id.
MaxIdLen == 3

\* The characters of those strings: ASCII letters of both cases and a digit,
\* letters outside ASCII of both cases, white space inside and outside
\* ASCII, the underscore, the hyphen and a punctuation mark.
IdChars == {"a", "A", "0", "U+00C9", "U+00E9", " ", "U+00A0", "_", "-", "!"}

NormInit ==
    /\ LeafIdle
    /\ RenderIdle
    /\ RunIdle
    /\ norm_input \in StringsUpTo(IdChars, MaxIdLen)
    /\ norm_output = None
    /\ norm_again = None

\* normalize_id(norm_input)
Normalize ==
    /\ norm_output = None
    /\ norm_output' = Some(normalize_id(norm_input))
    /\ UNCHANGED <<norm_input, norm_again>>
    /\ UNCHANGED <<leafVars, renderVars, runVars>>

\* normalize_id of what normalize_id returned.
NormalizeAgain ==
    /\ norm_output # None
    /\ norm_again = None
    /\ norm_again' = Some(normalize_id(norm_output[1]))
    /\ UNCHANGED <<norm_input, norm_output>>
    /\ UNCHANGED <<leafVars, renderVars, runVars>>

NormNext ==
    \/ Normalize
    \/ NormalizeAgain

SpecNormalize == NormInit /\ [][NormNext]_vars

\* The characters a to z, 0 to 9 and the underscore.
LowerDigitUnderscore == Range(AsciiLowerSeq) \cup Range(AsciiDigitSeq) \cup {"_"}

\* The characters that are letters or digits.
Alphanumerics ==
    Range(AsciiLowerSeq) \cup Range(AsciiUpperSeq) \cup Range(AsciiDigitSeq)
        \cup {"U+00C9", "U+00E9"}

\* The characters that become an underscore.
Separators == {" ", "\t", "\n", "U+00A0", "_", "-"}

\* The lower case form of a character: of A to Z, and of E acute.
LowerCaseForm(ch) ==
    IF \E i \in DOMAIN AsciiUpperSeq : AsciiUpperSeq[i] = ch
    THEN AsciiLowerSeq[CHOOSE i \in DOMAIN AsciiUpperSeq : AsciiUpperSeq[i] = ch]
    ELSE IF ch = "U+00C9" THEN "U+00E9"
    ELSE ch

\* The lower case form of an ASCII character; any other character as it is.
AsciiLowerCaseForm(ch) ==
    IF \E i \in DOMAIN AsciiUpperSeq : AsciiUpperSeq[i] = ch
    THEN AsciiLowerSeq[CHOOSE i \in DOMAIN AsciiUpperSeq : AsciiUpperSeq[i] = ch]
    ELSE ch

\* The characters of s that are letters, digits or separators, in order.
KeptChars(s) == SelectSeq(s, LAMBDA ch : ch \in Alphanumerics \cup Separators)

(* C14 as claimed: the output of normalize_id holds only characters of a   *)
(* to z, 0 to 9 and "_": every letter or digit of the input in its lower   *)
(* case form, "_" for every white space, underscore or hyphen, and nothing *)
(* for any other character.                                                *)
C14_OnlyLowerDigitUnderscore ==
    norm_output # None =>
        LET kept == KeptChars(norm_input)
            out == norm_output[1]
        IN  /\ Range(out) \subseteq LowerDigitUnderscore
            /\ Len(out) = Len(kept)
            /\ \A k \in DOMAIN kept :
                   k \in DOMAIN out =>
                       out[k] = IF kept[k] \in Separators THEN "_"
                                ELSE LowerCaseForm(kept[k])

(* C14 as amended: the output of normalize_id holds only characters of a   *)
(* to z, 0 to 9, "_" and letters or digits outside ASCII: every ASCII      *)
(* letter or digit of the input in its lower case form, every letter or    *)
(* digit outside ASCII as it is (upper case ones too), "_" for every white *)
(* space, underscore or hyphen, and nothing for any other character.       *)
C14_AsciiLowerCased ==
    norm_output # None =>
        LET kept == KeptChars(norm_input)
            out == norm_output[1]
        IN  /\ Range(out) \subseteq LowerDigitUnderscore \cup {"U+00C9", "U+00E9"}
            /\ Len(out) = Len(kept)
            /\ \A k \in DOMAIN kept :
                   out[k] = IF kept[k] \in Separators THEN "_"
                            ELSE AsciiLowerCaseForm(kept[k])

C14_Witness ==
    /\ norm_output # None
    /\ \E i \in DOMAIN norm_input : norm_input[i] = "A"
    /\ \E i \in DOMAIN norm_input : norm_input[i] = "U+00C9"
    /\ \E i \in DOMAIN norm_input : norm_input[i] \in {"!", "-", "U+00A0"}
    /\ Len(norm_output[1]) < Len(norm_input) \/ "_" \in Range(norm_output[1])

(* C15: normalize_id applied to its own output returns that output.        *)
C15_Idempotent ==
    norm_again # None => norm_again[1] = norm_output[1]

C15_Witness ==
    /\ norm_again # None
    /\ norm_output[1] # norm_input
    /\ norm_output[1] # <<>>
    /\ "_" \in Range(norm_output[1])
    /\ \E i \in DOMAIN norm_input : norm_input[i] \in {"A", "U+00C9"}

----------------------------------------------------------------------------
(* The closure of process_leaf_chapter over event streams of any shape: the *)
(* closure matches on every Event, whatever the Parser yields.              *)

\* The longest event stream given to the closure.
MaxScanLen == 4

\* The info strings of the code blocks given to the closure: "dot" (no
\* trigger), "dot process" and "dot process G" (named).
ScanInfoStrings ==
    {<<"d","o","t">>, INFO_STRING_PREFIX, INFO_STRING_PREFIX \o <<" ", "G">>}

\* The events given to the closure: a text, the start and the end of a
\* paragraph, and the start and the end of a code block.
ScanEvents ==
    {EvText(<<"a", "\n">>), EvStart(Paragraph), EvEnd(Paragraph)}
        \cup {EvStart(CodeBlock(info)) : info \in ScanInfoStrings}
        \cup {EvEnd(CodeBlock(info)) : info \in ScanInfoStrings}

ScanInit == LeafInit

ScanNext == \E e \in ScanEvents : Len(input) < MaxScanLen /\ ScanEvent(e)

SpecScan == ScanInit /\ [][ScanNext]_vars

\* The end of a code block, with any info string.
CodeBlockEnd(e) == e.type = "End" /\ e.tag.kind = "CodeBlock"

\* A builder is open when the event at position i arrives: a trigger start
\* came before it, with no end of a code block since.
OpenBefore(events, i) ==
    \E j \in 1..(i - 1) :
        /\ TriggerStart(events[j])
        /\ \A k \in (j + 1)..(i - 1) : ~CodeBlockEnd(events[k])

\* The scan failed its assertion at the event at position i.
FailedAt(i) == pc = "panicked" /\ i = Len(input) /\ i \notin DOMAIN event_futures

\* The future of the event at position i is complete and yields `events`.
Yields(i, events) ==
    /\ i \in DOMAIN event_futures
    /\ event_futures[i].kind = "ready"
    /\ event_futures[i].output = [ok |-> TRUE, value |-> events]

Unclosed(events) ==
    {j \in DOMAIN events :
        /\ TriggerStart(events[j])
        /\ \A k \in (j + 1)..Len(events) : ~CodeBlockEnd(events[k])}

\* The graph name an info string with the trigger prefix carries.
NameAfterPrefix(info) ==
    IF Len(info) > Len(INFO_STRING_PREFIX) /\ info[Len(INFO_STRING_PREFIX) + 1] = " "
    THEN trim(SubSeq(info, Len(INFO_STRING_PREFIX) + 2, Len(info)))
    ELSE <<>>

\* Every start of a code block in the stream is followed by its end, with
\* no start or end of a code block in between.
EveryBlockClosed(events) ==
    \A j \in DOMAIN events :
        IsCodeBlockStart(events[j]) =>
            \E k \in (j + 1)..Len(events) :
                /\ events[k] = EvEnd(events[j].tag)
                /\ \A m \in (j + 1)..(k - 1) :
                       ~IsCodeBlockStart(events[m]) /\ ~CodeBlockEnd(events[m])

(* C17: the scan holds a builder exactly when a trigger start was seen     *)
(* with no end of a code block since; the builder is the one made at the   *)
(* first such start, with every text seen since then appended and nothing  *)
(* else changed; after a stream in which every code block is closed there  *)
(* is no builder.                                                          *)
C17_BuilderLifecycle ==
    pc # "panicked" =>
        /\ Len(graphviz_block_builder) <= 1
        /\ IF Unclosed(input) = {} THEN graphviz_block_builder = None
           ELSE LET first == CHOOSE j \in Unclosed(input) :
                                 \A k \in Unclosed(input) : j <= k
                IN  /\ graphviz_block_builder # None
                    /\ graphviz_block_builder[1].graph_name =
                           NameAfterPrefix(input[first].tag.info)
                    /\ graphviz_block_builder[1].code =
                           TextBetween(input, first + 1, Len(input))
        /\ EveryBlockClosed(input) => graphviz_block_builder = None

C17_Witness ==
    /\ pc # "panicked"
    /\ graphviz_block_builder # None
    /\ graphviz_block_builder[1].code # <<>>
    /\ \E j \in Unclosed(input) : \E k \in Unclosed(input) :
           /\ j < k
           /\ input[j].tag # input[k].tag
           /\ \E t \in (j + 1)..(k - 1) : input[t].type = "Text"

(* C18: the completion of the subprocess is awaited only after a spawn    *)
(* that succeeded and a write that put the whole source on its standard    *)
(* input, and only once that standard input is closed.                     *)
C18_WriteCloseThenAwait ==
    /\ \A k \in DOMAIN rlog :
           rlog[k].op = "await" =>
               /\ rlog[k].stdin = "closed"
               /\ k > 2
               /\ rlog[k - 1].op = "write" /\ rlog[k - 1].ok
               /\ rlog[k - 2].op = "spawn" /\ rlog[k - 2].ok
               /\ child # None
               /\ child[1].received = render_args[1].code
    /\ rpc = "wait" =>
           /\ child # None
           /\ child[1].stdin = "closed"
           /\ child[1].received = render_args[1].code

C18_Witness ==
    /\ \E k \in DOMAIN rlog : rlog[k].op = "await" /\ rlog[k].stdin = "closed"
    /\ \E k \in DOMAIN rlog : rlog[k].op = "spawn" /\ ~rlog[k].ok
    /\ Len(child[1].received) > 1
    /\ render_result # None /\ render_result[1].ok

\* g is r without its leading and trailing white space.
IsTrimOf(g, r) ==
    \E a \in 0..Len(r) : \E b \in 0..(Len(r) - a) :
        /\ g = SubSeq(r, a + 1, Len(r) - b)
        /\ \A k \in (1..a) \cup ((Len(r) - b + 1)..Len(r)) : r[k] \in WhiteSpace
        /\ g # <<>> => (g[1] \notin WhiteSpace /\ g[Len(g)] \notin WhiteSpace)

\* g is the graph name the info string of a trigger carries: what follows
\* the prefix and one space, trimmed, or nothing when no space follows the
\* prefix.
IsGraphNameOf(g, info) ==
    LET n == Len(INFO_STRING_PREFIX)
    IN  IF Len(info) > n /\ info[n + 1] = " "
        THEN IsTrimOf(g, SubSeq(info, n + 2, Len(info)))
        ELSE g = <<>>

(* C19: the start of a code block opens a builder exactly when its info    *)
(* string begins with "dot process", whatever follows; the graph name of   *)
(* the builder, and of the block built from it, is what follows the prefix *)
(* and one space, trimmed, and empty when no space follows the prefix; a   *)
(* start without the prefix is passed through.                             *)
C19_TriggerAndGraphName ==
    (input # <<>> /\ IsCodeBlockStart(input[1])) =>
        LET info == input[1].tag.info
        IN  /\ Len(input) = 1 =>
                   (graphviz_block_builder # None <=> HasTriggerPrefix(info))
            /\ HasTriggerPrefix(info) =>
                   /\ Yields(1, <<>>)
                   /\ Len(input) = 1 =>
                          IsGraphNameOf(graphviz_block_builder[1].graph_name, info)
                   /\ Len(input) = 2 =>
                          /\ event_futures[2].kind = "render"
                          /\ IsGraphNameOf(event_futures[2].block[1].graph_name, info)
            /\ ~HasTriggerPrefix(info) =>
                   /\ \A i \in DOMAIN input : Yields(i, <<input[i]>>)
                   /\ graphviz_block_builder = None

C19_Witness ==
    /\ Len(input) = 2
    /\ HasTriggerPrefix(input[1].tag.info)
    /\ Len(input[1].tag.info) = Len(INFO_STRING_PREFIX) + 2
    /\ input[1].tag.info[Len(INFO_STRING_PREFIX) + 1] \notin WhiteSpace
    /\ event_futures[2].kind = "render"
    /\ event_futures[2].block[1].graph_name = <<>>

\* process_leaf_chapter of chapter n has returned.
LeafReturned(n) == nstate[n] \in {"sub", "ok", "err"}

\* The process_section future of place n has completed.
SectionDone(n) == nstate[n] \in {"ok", "err"}

\* The join of the items below place p (of the sections, for p = 0) has
\* returned.
JoinReturned(p) ==
    IF p = 0 THEN run_pc = "done" /\ \E n \in DOMAIN nstate : nstate[n] # "none"
    ELSE book[p].kind = "Chapter" /\ SectionDone(p) /\ LeafSucceeded(p)

\* The first of the items below p that returned an error, if any.
FirstFailedBelow(p) ==
    LET failed == {c \in DOMAIN nstate : Parent(c) = p /\ nstate[c] = "err"}
    IN  IF failed = {} THEN <<>>
        ELSE <<CHOOSE c \in failed : \A d \in failed : c <= d>>

\* The result of the join of the items below p.
JoinResult(p) == IF p = 0 THEN run_result ELSE nresult[p]

(* C20: when process_leaf_chapter of a chapter returns, the render of      *)
(* every block of the chapter has been invoked and has completed, failed   *)
(* renders or not, and with failed renders the error returned is that of   *)
(* the first failed block of the chapter; when the join of a list of items *)
(* returns, every item of the list has completed, and with failed items    *)
(* the error returned is that of the first failed item of the list.        *)
C20_NoCancellationFirstErrorByPosition ==
    /\ \A n \in DOMAIN nstate :
           (book[n].kind = "Chapter" /\ LeafReturned(n)) =>
               /\ Len(run_calls[n]) = Cardinality(TriggerEnds(book[n].content))
               /\ \A k \in DOMAIN run_calls[n] :
                      run_calls[n][k].outcome \in {"ok", "err"}
               /\ RenderFailedAt(n) =>
                      LET failed == {k \in DOMAIN run_calls[n] :
                                        run_calls[n][k].outcome = "err"}
                          first == CHOOSE k \in failed :
                                       \A m \in failed :
                                           run_calls[n][k].position
                                               <= run_calls[n][m].position
                      IN  /\ IsError(nresult[n])
                          /\ nresult[n][1].err.error = "render"
                          /\ nresult[n][1].err.place = n
                          /\ nresult[n][1].err.position = run_calls[n][first].position
    /\ \A p \in {0} \cup DOMAIN nstate :
           JoinReturned(p) =>
               /\ \A c \in DOMAIN nstate : Parent(c) = p => SectionDone(c)
               /\ FirstFailedBelow(p) # <<>> =>
                      JoinResult(p) = nresult[FirstFailedBelow(p)[1]]

C20_Witness ==
    /\ JoinReturned(0)
    /\ \E a \in DOMAIN nstate : \E b \in DOMAIN nstate :
           /\ Parent(a) = 0 /\ Parent(b) = 0
           /\ a < b
           /\ nstate[a] = "err" /\ nstate[b] = "err"
           /\ nrank[b] < nrank[a]
           /\ run_result = nresult[a]
           /\ nresult[a] # nresult[b]
           /\ \E j \in DOMAIN run_calls[a] : \E k \in DOMAIN run_calls[a] :
                  /\ run_calls[a][j].position < run_calls[a][k].position
                  /\ run_calls[a][j].outcome = "err"
                  /\ run_calls[a][k].outcome = "err"
                  /\ run_calls[a][k].rank < run_calls[a][j].rank

====
